---- MODULE Spec2Model ----
(***************************************************************************)
(* Model of evalap/api/metrics/llm_structured_output.py: the structured-   *)
(* output metric.  The module is a stateless pipeline of four functions,   *)
(*   parse_json_from_response, count_total_values,                         *)
(*   calculate_similarity_score, calculate_field_level_scores,             *)
(* composed by llm_structured_output_metric.  A behaviour of the model is  *)
(* one call of one of these functions by a caller: Init draws the function *)
(* called (mode) and its arguments, the actions run the code.              *)
(*                                                                         *)
(* Python values are tagged records; Python's None and JSON's null are the *)
(* same value (Null).  Scores are exact rationals [num, den] in lowest     *)
(* terms: the code computes them in binary floating point, whose rounding  *)
(* is not modelled.                                                        *)
(***************************************************************************)
EXTENDS Integers, Sequences, FiniteSets, TLC

(* ------------------------------ bounds -------------------------------- *)

\* longest sequence (JSON array) in a generated value
MaxLen == 2

\* most entries of one category in a generated diff
MaxEntries == 1

\* most tokens in a generated response text
MaxTokens == 3

(* --------------------------- Python values ---------------------------- *)

Null == [t |-> "null"]

Bool(b) == [t |-> "bool", v |-> b]

Num(n) == [t |-> "num", v |-> n]

Str(s) == [t |-> "str", v |-> s]

List(s) == [t |-> "list", v |-> s]

Dict(f) == [t |-> "dict", v |-> f]

\* a Python object that is none of the JSON types (a tuple, a set, ...)
Other == [t |-> "other"]

EmptyList == List(<< >>)

EmptyDict == Dict([k \in {} |-> Null])

IsDict(x) == x.t = "dict"

Keys == {"a", "b"}

ListsOver(S, n) == {List(s) : s \in UNION {[1..k -> S] : k \in 0..n}}

DictsOver(K, S) == {Dict(f) : f \in UNION {[D -> S] : D \in SUBSET K}}

Range(f) == {f[i] : i \in DOMAIN f}

(* ---------------------------- rationals ------------------------------- *)

RECURSIVE GCD(_, _)
GCD(a, b) == IF b = 0 THEN a ELSE GCD(b, a % b)

\* n/d in lowest terms, for n >= 0 and d > 0
Frac(n, d) == [num |-> n \div GCD(n, d), den |-> d \div GCD(n, d)]

Zero == Frac(0, 1)

One == Frac(1, 1)

FAdd(x, y) == Frac(x.num * y.den + y.num * x.den, x.den * y.den)

FDiv(x, n) == Frac(x.num, x.den * n)

FLe(x, y) == x.num * y.den <= y.num * x.den

FLt(x, y) == x.num * y.den < y.num * x.den

IsScore(x) == x.den > 0 /\ FLe(Zero, x) /\ FLe(x, One)

(* ------------------------- count_total_values ------------------------- *)

RECURSIVE SumSeq(_)
SumSeq(s) == IF s = << >> THEN 0 ELSE Head(s) + SumSeq(Tail(s))

RECURSIVE SumFn(_, _)
SumFn(f, D) ==
    IF D = {} THEN 0
    ELSE LET k == CHOOSE k \in D : TRUE IN f[k] + SumFn(f, D \ {k})

RECURSIVE count_total_values(_)
count_total_values(data) ==
    IF data = Null THEN 1
    ELSE IF data.t \in {"str", "num", "bool"} THEN 1
    ELSE IF data.t = "list" THEN
        SumSeq([i \in DOMAIN data.v |-> count_total_values(data.v[i])])
    ELSE IF data.t = "dict" THEN
        SumFn([k \in DOMAIN data.v |-> count_total_values(data.v[k])], DOMAIN data.v)
    ELSE 1

(* ------------------------- response strings --------------------------- *)

(* A Python str is a sequence of whitespace-separated tokens:              *)
(*   prose   text with no brace and no backtick that is not JSON           *)
(*   fence   a markdown fence ``` (with or without the json tag)           *)
(*   lbrace  a lone {          rbrace  a lone }                            *)
(*   json    the JSON text of value v; v is a mapping (the text starts     *)
(*           with { and ends with }) or a value whose text has no brace    *)
Prose == [k |-> "prose"]

Fence == [k |-> "fence"]

LBrace == [k |-> "lbrace"]

RBrace == [k |-> "rbrace"]

Json(x) == [k |-> "json", v |-> x]

Text(toks) == [t |-> "text", v |-> toks]

IsText(x) == x.t = "text"

IsJsonDict(tok) == tok.k = "json" /\ IsDict(tok.v)

\* the token's text holds a { / holds a }
HasOpen(tok) == tok.k = "lbrace" \/ IsJsonDict(tok)

HasClose(tok) == tok.k = "rbrace" \/ IsJsonDict(tok)

(* --------------------- function results ------------------------------- *)

Return(x) == [kind |-> "return", val |-> x]

Raise(e) == [kind |-> "raise", exc |-> e]

\* json.loads on the text made of the tokens toks
json_loads_str(toks) ==
    IF Len(toks) = 1 /\ toks[1].k = "json" THEN Return(toks[1].v)
    ELSE IF toks = <<LBrace, RBrace>> THEN Return(EmptyDict)
    ELSE Raise("JSONDecodeError")

\* json.loads: anything but a str (bytes are not modelled) is a TypeError
json_loads(s) == IF IsText(s) THEN json_loads_str(s.v) ELSE Raise("TypeError")

\* re.search(r'\{.*\}', response, re.DOTALL): from the first { to the last },
\* << >> when there is no match
brace_match(toks) ==
    LET opens == {i \in DOMAIN toks : HasOpen(toks[i])}
        closes == {j \in DOMAIN toks : HasClose(toks[j])}
    IN  IF opens = {} \/ closes = {} THEN << >>
        ELSE LET i == CHOOSE i \in opens : \A o \in opens : i <= o
                 j == CHOOSE j \in closes : \A c \in closes : c <= j
             IN  IF i < j \/ (i = j /\ IsJsonDict(toks[i])) THEN SubSeq(toks, i, j)
                 ELSE << >>

\* the closing fences g that end a block opened by the fence at f
FenceEnds(toks, f) ==
    {g \in DOMAIN toks :
        /\ g > f + 1
        /\ toks[g] = Fence
        /\ HasClose(toks[g - 1])
        /\ (g - 1 = f + 1 => IsJsonDict(toks[f + 1]))}

\* re.search(r'```(?:json)?\s*(\{.*?\})\s*```', response, re.DOTALL): group 1
\* of the leftmost match, the shortest from there; << >> when there is none
code_block_match(toks) ==
    LET starts == {f \in DOMAIN toks :
                     /\ toks[f] = Fence
                     /\ f + 1 \in DOMAIN toks
                     /\ HasOpen(toks[f + 1])
                     /\ FenceEnds(toks, f) # {}}
    IN  IF starts = {} THEN << >>
        ELSE LET f == CHOOSE f \in starts : \A o \in starts : f <= o
                 g == CHOOSE g \in FenceEnds(toks, f) :
                         \A e \in FenceEnds(toks, f) : g <= e
             IN  SubSeq(toks, f + 1, g - 1)

(* ---------------------- parse_json_from_response ---------------------- *)

parse_json_from_response(response) ==
    IF IsDict(response) THEN Return(response)
    ELSE LET direct == json_loads(response) IN
         IF direct.kind = "return" \/ direct.exc # "JSONDecodeError" THEN direct
         ELSE LET json_match == brace_match(response.v)
                  code_block == code_block_match(response.v) IN
              IF json_match # << >> /\ json_loads_str(json_match).kind = "return"
              THEN json_loads_str(json_match)
              ELSE IF code_block # << >> /\ json_loads_str(code_block).kind = "return"
              THEN json_loads_str(code_block)
              ELSE Return(Null)

(* ------------------------------ DeepDiff ------------------------------ *)

(* A DeepDiff result.  The code reads only the number of entries of        *)
(* values_changed, type_changes, dictionary_item_removed and               *)
(* dictionary_item_added, and the items of iterable_item_removed and       *)
(* iterable_item_added: the first four are entry counts, the last two the  *)
(* items, one per entry.  A category with no entry is absent.              *)
MkDiff(vc, tc, dr, da, ir, ia) ==
    [values_changed |-> vc, type_changes |-> tc,
     dictionary_item_removed |-> dr, dictionary_item_added |-> da,
     iterable_item_removed |-> ir, iterable_item_added |-> ia]

EmptyDiff == MkDiff(0, 0, 0, 0, << >>, << >>)

\* the diff of two subtrees reported together
Merge(d, e) ==
    MkDiff(d.values_changed + e.values_changed,
           d.type_changes + e.type_changes,
           d.dictionary_item_removed + e.dictionary_item_removed,
           d.dictionary_item_added + e.dictionary_item_added,
           d.iterable_item_removed \o e.iterable_item_removed,
           d.iterable_item_added \o e.iterable_item_added)

\* the elements of s that satisfy keep, in order
RECURSIVE SelectIdx(_, _, _)
SelectIdx(s, keep, i) ==
    IF i > Len(s) THEN << >>
    ELSE (IF i \in keep THEN <<s[i]>> ELSE << >>) \o SelectIdx(s, keep, i + 1)

\* the partial one-to-one pairings of the items R with the items A
Pairings(R, A) ==
    {f \in UNION {[D -> A] : D \in SUBSET R} :
        \A x, y \in DOMAIN f : x # y => f[x] # f[y]}

(* DeepDiff(t1, t2, ignore_order=True): the results the library can give.  *)
(* Equal trees diff to nothing; different types are one type change at the *)
(* place; mappings are compared key by key; sequences are compared as sets *)
(* of items, and an item found on one side only is either reported as      *)
(* removed/added or paired with an item of the other side and diffed       *)
(* against it.  Which items the library pairs, and whether an item that    *)
(* occurs several times is reported once or once per occurrence, depends   *)
(* on its version and settings: every choice is a possible result.         *)
RECURSIVE DeepDiff(_, _)
RECURSIVE DictDiffs(_, _, _)
RECURSIVE PairDiffs(_, _)
DictDiffs(t1, t2, common) ==
    IF common = {} THEN {EmptyDiff}
    ELSE LET k == CHOOSE k \in common : TRUE IN
         {Merge(d, e) : d \in DeepDiff(t1[k], t2[k]),
                        e \in DictDiffs(t1, t2, common \ {k})}

PairDiffs(f, D) ==
    IF D = {} THEN {EmptyDiff}
    ELSE LET x == CHOOSE x \in D : TRUE IN
         {Merge(d, e) : d \in DeepDiff(x, f[x]), e \in PairDiffs(f, D \ {x})}

DeepDiff(t1, t2) ==
    IF t1 = t2 THEN {EmptyDiff}
    ELSE IF t1.t # t2.t THEN {MkDiff(0, 1, 0, 0, << >>, << >>)}
    ELSE IF t1.t = "dict" THEN
        LET removed == DOMAIN t1.v \ DOMAIN t2.v
            added == DOMAIN t2.v \ DOMAIN t1.v
            here == MkDiff(0, 0, Cardinality(removed), Cardinality(added), << >>, << >>)
        IN  {Merge(here, d) : d \in DictDiffs(t1.v, t2.v, DOMAIN t1.v \cap DOMAIN t2.v)}
    ELSE IF t1.t = "list" THEN
        LET R == Range(t1.v) \ Range(t2.v)
            A == Range(t2.v) \ Range(t1.v)
            \* the indices that report the items S of s: every occurrence, or the first
            All(s, S) == {i \in DOMAIN s : s[i] \in S}
            First(s, S) == {i \in All(s, S) : \A j \in All(s, S) : s[j] = s[i] => i <= j}
            Report(f, idx1, idx2) ==
                {Merge(MkDiff(0, 0, 0, 0, SelectIdx(t1.v, idx1, 1), SelectIdx(t2.v, idx2, 1)), d) :
                    d \in PairDiffs(f, DOMAIN f)}
        IN  UNION {Report(f, All(t1.v, R \ DOMAIN f), All(t2.v, A \ Range(f)))
                   \cup Report(f, First(t1.v, R \ DOMAIN f), First(t2.v, A \ Range(f))) :
                   f \in Pairings(R, A)}
    ELSE {MkDiff(1, 0, 0, 0, << >>, << >>)}

(* --------------------- calculate_similarity_score --------------------- *)

\* `not diff`: no category has an entry
DiffIsEmpty(diff) == diff = EmptyDiff

\* sum(count_total_values(item) for item in items)
CountItems(items) == SumSeq([i \in DOMAIN items |-> count_total_values(items[i])])

\* a diff_count that charges every removed or added element 1, whatever it holds
diff_count_per_entry(diff) ==
    diff.values_changed + diff.type_changes
    + diff.dictionary_item_removed
    + Len(diff.iterable_item_removed)
    + diff.dictionary_item_added
    + Len(diff.iterable_item_added)

diff_count_of(diff) ==
    diff.values_changed + diff.type_changes
    + diff.dictionary_item_removed
    + CountItems(diff.iterable_item_removed)
    + diff.dictionary_item_added
    + CountItems(diff.iterable_item_added)

\* the score without the floor of max(0.0, ...)
similarity_score_no_floor(expected_data, extracted_data, diff) ==
    IF expected_data = Null /\ extracted_data = Null THEN One
    ELSE IF expected_data = Null \/ extracted_data = Null THEN Zero
    ELSE IF DiffIsEmpty(diff) THEN One
    ELSE LET total_expected_values == count_total_values(expected_data)
             diff_count == diff_count_of(diff) IN
         IF total_expected_values = 0
         THEN (IF diff_count = 0 THEN One ELSE Zero)
         ELSE Frac(total_expected_values - diff_count, total_expected_values)

\* the score without the rule for exactly one None (lines 77-78)
similarity_score_no_none_rule(expected_data, extracted_data, diff) ==
    IF expected_data = Null /\ extracted_data = Null THEN One
    ELSE IF DiffIsEmpty(diff) THEN One
    ELSE LET total_expected_values == count_total_values(expected_data)
             diff_count == diff_count_of(diff) IN
         IF total_expected_values = 0
         THEN (IF diff_count = 0 THEN One ELSE Zero)
         ELSE IF diff_count >= total_expected_values THEN Zero
         ELSE Frac(total_expected_values - diff_count, total_expected_values)

calculate_similarity_score(expected_data, extracted_data, diff) ==
    IF expected_data = Null /\ extracted_data = Null THEN One
    ELSE IF expected_data = Null \/ extracted_data = Null THEN Zero
    ELSE IF DiffIsEmpty(diff) THEN One
    ELSE LET total_expected_values == count_total_values(expected_data)
             diff_count == diff_count_of(diff) IN
         IF total_expected_values = 0
         THEN (IF diff_count = 0 THEN One ELSE Zero)
         ELSE IF diff_count >= total_expected_values THEN Zero
         ELSE Frac(total_expected_values - diff_count, total_expected_values)

(* -------------------- calculate_field_level_scores -------------------- *)

\* expected_data.get(key)
Get(d, key) == IF key \in DOMAIN d.v THEN d.v[key] ELSE Null

\* the keys of the expected side alone
all_keys_expected_only(expected_data, extracted_data) == DOMAIN expected_data.v

\* all_keys
all_keys_of(expected_data, extracted_data) == DOMAIN expected_data.v \cup DOMAIN extracted_data.v

\* the DeepDiff results of the loop, one per key (line 147)
key_diffs_of(expected_data, extracted_data) ==
    LET all_keys == all_keys_of(expected_data, extracted_data)
        results(k) == DeepDiff(Get(expected_data, k), Get(extracted_data, k))
    IN  {kd \in [all_keys -> UNION {results(k) : k \in all_keys}] :
            \A k \in all_keys : kd[k] \in results(k)}

\* key_diff gives, for each key, the result DeepDiff returned for it
calculate_field_level_scores(expected_data, extracted_data, key_diff) ==
    IF ~IsDict(expected_data) \/ ~IsDict(extracted_data) THEN << >>
    ELSE [key \in all_keys_of(expected_data, extracted_data) |->
            calculate_similarity_score(Get(expected_data, key), Get(extracted_data, key),
                                       key_diff[key])]

(* ------------------------------- inputs ------------------------------- *)

\* values given to count_total_values: leaves, and containers nested three deep
CountElems ==
    {Num(1), Str("a"), EmptyList, EmptyDict, List(<<Num(1), Num(2)>>),
     Dict([k \in {"a"} |-> Num(1)]), List(<<EmptyList>>), Dict([k \in {"a"} |-> EmptyList])}

CountVals ==
    {Null, Bool(TRUE), Num(1), Str("a"), Other}
    \cup ListsOver(CountElems, MaxLen) \cup DictsOver(Keys, CountElems)

\* arguments of calculate_similarity_score
SimExpected ==
    {Null, Num(1), EmptyList, EmptyDict, List(<<Num(1), Num(2)>>), List(<<EmptyList>>),
     Dict([k \in Keys |-> List(<<Num(1), Num(2)>>)])}

SimExtracted == {Null, Num(1)}

DiffItems == {Num(1), EmptyList, List(<<Num(1), Num(2)>>)}

ItemSeqs == UNION {[1..n -> DiffItems] : n \in 0..MaxEntries}

Diffs ==
    {MkDiff(vc, tc, dr, da, ir, ia) :
        vc \in 0..MaxEntries, tc \in 0..MaxEntries, dr \in 0..MaxEntries,
        da \in 0..MaxEntries, ir \in ItemSeqs, ia \in ItemSeqs}

\* arguments of parse_json_from_response: every text of up to MaxTokens tokens,
\* and values that are not str
Tokens ==
    {Prose, Fence, LBrace, RBrace, Json(EmptyDict), Json(Dict([k \in {"a"} |-> Num(1)])),
     Json(Num(1))}

Texts == {Text(toks) : toks \in UNION {[1..n -> Tokens] : n \in 0..MaxTokens}}

Parsed ==
    {Bool(TRUE), Num(1), EmptyList, List(<<Num(1)>>), EmptyDict,
     Dict([k \in {"a"} |-> Num(1)])}

\* arguments of llm_structured_output_metric, each a str or an already-parsed
\* dict (the two kinds line 14 tells apart): mappings with up to two fields, and
\* the texts a model answers with
FieldElems == {Num(1), Num(2), EmptyList, List(<<Num(1), Num(2)>>)}

\* the values of the field a: leaves, sequences, nested mappings
FieldVals ==
    {Null, Num(1), Num(2)} \cup ListsOver(FieldElems, MaxLen)
    \cup DictsOver({"a"}, {Num(1), Num(2)})

\* the values of the field b
FieldValsB == {Null, Num(1)}

MetricDocs ==
    {Dict(f) : f \in {g \in UNION {[D -> FieldVals] : D \in SUBSET Keys} :
                        "b" \in DOMAIN g => g["b"] \in FieldValsB}}

TextDocs == DictsOver({"a"}, {Num(1), List(<<Num(1)>>)})

Wraps(d) ==
    {<<Json(d)>>, <<Prose, Json(d)>>, <<Prose, Fence, Json(d), Fence>>,
     <<LBrace, Prose, RBrace, Fence, Json(d), Fence>>}

MetricTexts ==
    {Text(toks) : toks \in UNION {Wraps(d) : d \in TextDocs}}
    \cup {Text(<< >>), Text(<<Prose>>), Text(<<LBrace, Prose>>),
          Text(<<Json(EmptyDict), Prose, Json(EmptyDict)>>),
          Text(<<Json(Null)>>), Text(<<Json(Num(1))>>), Text(<<Json(List(<<Num(1)>>))>>)}

MetricInputs == MetricDocs \cup MetricTexts

(* ----------------------------- the calls ------------------------------ *)

VARIABLES
    mode,           \* the function called
    pc,             \* where the call is
    data,           \* count_total_values: its argument
    diff,           \* calculate_similarity_score: its diff argument
    response,       \* parse_json_from_response: its argument
    output,         \* llm_structured_output_metric: its arguments
    output_true,
    expected_data,  \* the parsed ground truth (calculate_similarity_score: expected_data)
    extracted_data, \* the parsed output (calculate_similarity_score: extracted_data)
    key_diffs,      \* the DeepDiff result of each top-level key
    field_scores,
    result          \* what the call returned or raised

vars ==
    <<mode, pc, data, diff, response, output, output_true, expected_data,
      extracted_data, key_diffs, field_scores, result>>

Pending == [kind |-> "pending"]

InitCount ==
    /\ mode = "count" /\ data \in CountVals
    /\ diff = EmptyDiff /\ response = Null /\ output = Null /\ output_true = Null
    /\ expected_data = Null /\ extracted_data = Null

InitSimilarity ==
    /\ mode = "similarity"
    /\ expected_data \in SimExpected /\ extracted_data \in SimExtracted /\ diff \in Diffs
    /\ data = Null /\ response = Null /\ output = Null /\ output_true = Null

InitParse ==
    /\ mode = "parse" /\ response \in Texts \cup Parsed
    /\ data = Null /\ diff = EmptyDiff /\ output = Null /\ output_true = Null
    /\ expected_data = Null /\ extracted_data = Null

InitMetric ==
    /\ mode = "metric" /\ output \in MetricInputs /\ output_true \in MetricInputs
    /\ data = Null /\ diff = EmptyDiff /\ response = Null
    /\ expected_data = Null /\ extracted_data = Null

Init ==
    /\ pc = "call" /\ key_diffs = << >> /\ field_scores = << >> /\ result = Pending
    /\ (InitCount \/ InitSimilarity \/ InitParse \/ InitMetric)

CallCount ==
    /\ mode = "count" /\ pc = "call"
    /\ result' = Return(count_total_values(data))
    /\ pc' = "done"
    /\ UNCHANGED <<mode, data, diff, response, output, output_true, expected_data,
                   extracted_data, key_diffs, field_scores>>

CallSimilarity ==
    /\ mode = "similarity" /\ pc = "call"
    /\ result' = Return(calculate_similarity_score(expected_data, extracted_data, diff))
    /\ pc' = "done"
    /\ UNCHANGED <<mode, data, diff, response, output, output_true, expected_data,
                   extracted_data, key_diffs, field_scores>>

CallParse ==
    /\ mode = "parse" /\ pc = "call"
    /\ result' = parse_json_from_response(response)
    /\ pc' = "done"
    /\ UNCHANGED <<mode, data, diff, response, output, output_true, expected_data,
                   extracted_data, key_diffs, field_scores>>

(* -------------------- llm_structured_output_metric -------------------- *)

\* output_true[:500]: every modelled text is shorter than 500 characters
Slice500(s) == s

GroundTruthError == "Failed to parse ground truth JSON"

ExtractionError == "Failed to extract valid JSON from LLM response"

\* an extraction failure that hands back the extracted data, not the output
extraction_failure_no_echo(expected, out) ==
    Return(<<Zero, [score |-> Zero, error |-> ExtractionError, expected_data |-> expected],
             Null>>)

\* lines 175-181: the triple returned when no JSON is found in the output
extraction_failure(expected, out) ==
    Return(<<Zero, [score |-> Zero, error |-> ExtractionError, expected_data |-> expected],
             out>>)

\* lines 164-170: parse the ground truth; a JSONDecodeError is reported, any
\* other exception escapes
ParseGroundTruth ==
    /\ mode = "metric" /\ pc = "call"
    /\ LET r == parse_json_from_response(output_true) IN
       IF r.kind = "raise"
       THEN /\ result' = IF r.exc = "JSONDecodeError"
                         THEN Return(<<Zero,
                                       [error |-> GroundTruthError,
                                        output_true |-> Slice500(output_true)],
                                       output>>)
                         ELSE r
            /\ pc' = "done"
            /\ UNCHANGED expected_data
       ELSE /\ expected_data' = r.val
            /\ pc' = "parse_output"
            /\ UNCHANGED result
    /\ UNCHANGED <<mode, data, diff, response, output, output_true, extracted_data,
                   key_diffs, field_scores>>

\* lines 172-181: parse the output; None is an extraction failure
ParseOutput ==
    /\ mode = "metric" /\ pc = "parse_output"
    /\ LET r == parse_json_from_response(output) IN
       IF r.kind = "raise"
       THEN /\ result' = r
            /\ pc' = "done"
            /\ UNCHANGED extracted_data
       ELSE IF r.val = Null
       THEN /\ result' = extraction_failure(expected_data, output)
            /\ pc' = "done"
            /\ extracted_data' = r.val
       ELSE /\ extracted_data' = r.val
            /\ pc' = "score"
            /\ UNCHANGED result
    /\ UNCHANGED <<mode, data, diff, response, output, output_true, expected_data,
                   key_diffs, field_scores>>

\* lines 184-185: the whole-tree diff of line 184 is computed and never read
ScoreFields ==
    /\ mode = "metric" /\ pc = "score"
    /\ IF IsDict(expected_data) /\ IsDict(extracted_data)
       THEN key_diffs' \in key_diffs_of(expected_data, extracted_data)
       ELSE key_diffs' = << >>
    /\ field_scores' = calculate_field_level_scores(expected_data, extracted_data, key_diffs')
    /\ pc' = "aggregate"
    /\ UNCHANGED <<mode, data, diff, response, output, output_true, expected_data,
                   extracted_data, result>>

RECURSIVE SumScores(_, _)
SumScores(fs, D) ==
    IF D = {} THEN Zero
    ELSE LET k == CHOOSE k \in D : TRUE IN FAdd(fs[k], SumScores(fs, D \ {k}))

\* line 186: sum(field_scores.values()) / len(field_scores)
overall_score_of(fs) ==
    IF DOMAIN fs = {} THEN Raise("ZeroDivisionError")
    ELSE Return(FDiv(SumScores(fs, DOMAIN fs), Cardinality(DOMAIN fs)))

\* lines 186-202
Aggregate ==
    /\ mode = "metric" /\ pc = "aggregate"
    /\ LET overall_score == overall_score_of(field_scores) IN
       result' = IF overall_score.kind = "raise" THEN overall_score
                 ELSE Return(<<overall_score.val,
                               [score |-> overall_score.val,
                                extracted_data |-> extracted_data,
                                expected_data |-> expected_data,
                                field_scores |-> field_scores],
                               output>>)
    /\ pc' = "done"
    /\ UNCHANGED <<mode, data, diff, response, output, output_true, expected_data,
                   extracted_data, key_diffs, field_scores>>

Next ==
    \/ CallCount
    \/ CallSimilarity
    \/ CallParse
    \/ ParseGroundTruth
    \/ ParseOutput
    \/ ScoreFields
    \/ Aggregate

Spec == Init /\ [][Next]_vars

\* the calls of llm_structured_output_metric alone
InitMetricCall ==
    /\ pc = "call" /\ key_diffs = << >> /\ field_scores = << >> /\ result = Pending
    /\ InitMetric

NextMetric ==
    \/ ParseGroundTruth
    \/ ParseOutput
    \/ ScoreFields
    \/ Aggregate

SpecMetric == InitMetricCall /\ [][NextMetric]_vars

(* ---------------------------- properties ------------------------------ *)

MetricDone == mode = "metric" /\ pc = "done"

\* C1: llm_structured_output_metric returns a (score, observation, output)
\* triple for every pair of inputs and lets no exception escape; with an empty
\* field score map it returns a fallback score, not a division by zero.
C1_NoExceptionEscapes ==
    MetricDone => /\ result.kind = "return"
                  /\ Len(result.val) = 3
                  /\ result.val[3] = output

\* no extraction strategy yields JSON from the text s
NoStrategyYieldsJson(s) ==
    /\ json_loads_str(s.v).kind = "raise"
    /\ brace_match(s.v) = << >> \/ json_loads_str(brace_match(s.v)).kind = "raise"
    /\ code_block_match(s.v) = << >> \/ json_loads_str(code_block_match(s.v)).kind = "raise"

\* C2: when output_true is a string from which no strategy yields JSON, the
\* metric returns score 0.0 and an observation with the ground-truth parse error
\* and the first 500 characters of output_true, whatever output is.
C2_GroundTruthFailureReported ==
    (MetricDone /\ IsText(output_true) /\ NoStrategyYieldsJson(output_true)) =>
        /\ result.kind = "return"
        /\ result.val[1] = Zero
        /\ DOMAIN result.val[2] = {"error", "output_true"}
        /\ result.val[2].error = GroundTruthError
        /\ result.val[2].output_true = Slice500(output_true)

\* the extractor was called on output (line 172 was reached) and returned None
ExtractorGaveNone ==
    /\ parse_json_from_response(output_true).kind = "return"
    /\ parse_json_from_response(output) = Return(Null)

\* C3: when the extractor returns None for output, the metric returns
\* (0.0, observation, output): the observation holds the extraction-failure
\* error and the parsed expected data, the third element is the original output,
\* and no diff or field score is computed.
C3_ExtractionFailure ==
    (MetricDone /\ ExtractorGaveNone) =>
        /\ result.kind = "return"
        /\ result.val[1] = Zero
        /\ result.val[2].error = ExtractionError
        /\ result.val[2].expected_data = parse_json_from_response(output_true).val
        /\ result.val[3] = output
        /\ key_diffs = << >> /\ field_scores = << >>

\* the output is prose around braces that hold no JSON, the ground truth a mapping
C3_Witness ==
    /\ MetricDone /\ ExtractorGaveNone
    /\ output = Text(<<LBrace, Prose>>)
    /\ IsDict(expected_data) /\ DOMAIN expected_data.v = Keys
    /\ result.kind = "return" /\ result.val[2].expected_data = expected_data

SimilarityDone == mode = "similarity" /\ pc = "done"

\* C4: every score lies in [0.0, 1.0]: the result of calculate_similarity_score
\* for any expected, extracted and diff, every entry of the field score map, and
\* the overall score of the metric whenever it returns.
C4_ScoresInUnitInterval ==
    /\ SimilarityDone => IsScore(result.val)
    /\ \A k \in DOMAIN field_scores : IsScore(field_scores[k])
    /\ (MetricDone /\ result.kind = "return") => IsScore(result.val[1])

\* a diff that costs more than the expected side holds: the score stops at 0
C4_Witness ==
    /\ SimilarityDone
    /\ expected_data = Num(1) /\ extracted_data = Num(1)
    /\ diff.values_changed = 1 /\ diff.iterable_item_added = <<List(<<Num(1), Num(2)>>)>>
    /\ result.val = Zero

CountDone == mode = "count" /\ pc = "done"

IsLeaf(x) == x.t \notin {"list", "dict"}

IsNonEmptyStructure(x) == x.t \in {"list", "dict"} /\ DOMAIN x.v # {}

\* C5: count_total_values is strictly positive for any sequence with at least
\* one element and any mapping with at least one key, at any nesting depth, and
\* is exactly 1 for any atomic leaf including null.
C5_CountPositive ==
    CountDone => /\ IsLeaf(data) => result.val = 1
                 /\ IsNonEmptyStructure(data) => result.val > 0

ParseDone == mode = "parse" /\ pc = "done"

\* C6: for every already-parsed input (a mapping, a sequence or another value
\* that is not a string) parse_json_from_response returns the value unchanged
\* and does not raise.
C6_ParsedPassThrough ==
    (ParseDone /\ ~IsText(response)) => result = Return(response)

RECURSIVE UnitsOf(_, _)
UnitsOf(items, i) ==
    IF i > Len(items) THEN 0 ELSE count_total_values(items[i]) + UnitsOf(items, i + 1)

\* the penalty: one per changed value, changed type, removed key
\* and added key, and the value units of each removed and added element
C7_Penalty ==
    diff.values_changed + diff.type_changes
    + diff.dictionary_item_removed + diff.dictionary_item_added
    + UnitsOf(diff.iterable_item_removed, 1) + UnitsOf(diff.iterable_item_added, 1)

C7_Denominator == count_total_values(expected_data)

\* C7: for expected and extracted that are not None and a non-empty diff,
\* calculate_similarity_score returns max(0, 1 - diff_count/denominator) with the
\* denominator count_total_values(expected) and diff_count the penalty above;
\* with a denominator of 0 it returns 1.0 if diff_count is 0 and 0.0 otherwise.
C7_SimilarityFormula ==
    (SimilarityDone /\ expected_data # Null /\ extracted_data # Null /\ diff # EmptyDiff) =>
        IF C7_Denominator = 0
        THEN result.val = (IF C7_Penalty = 0 THEN One ELSE Zero)
        ELSE /\ result.val.den > 0
             /\ result.val.num * C7_Denominator =
                    result.val.den * (IF C7_Penalty >= C7_Denominator THEN 0
                                      ELSE C7_Denominator - C7_Penalty)

\* a removed element of two value units out of four expected ones: 1 - 2/4
C7_Witness ==
    /\ SimilarityDone
    /\ expected_data = Dict([k \in Keys |-> List(<<Num(1), Num(2)>>)])
    /\ extracted_data = Num(1)
    /\ diff = MkDiff(0, 0, 0, 0, <<List(<<Num(1), Num(2)>>)>>, << >>)
    /\ result.val = Frac(1, 2)

BothMappings == IsDict(expected_data) /\ IsDict(extracted_data)

UnionOfKeys == DOMAIN expected_data.v \cup DOMAIN extracted_data.v

\* the sum of the scores fs[k], k in D, as a fraction not reduced
RECURSIVE C8_Total(_, _)
C8_Total(fs, D) ==
    IF D = {} THEN [num |-> 0, den |-> 1]
    ELSE LET k == CHOOSE k \in D : TRUE
             rest == C8_Total(fs, D \ {k})
         IN  [num |-> fs[k].num * rest.den + rest.num * fs[k].den,
              den |-> fs[k].den * rest.den]

\* C8: when both parsed trees are mappings with at least one key between them,
\* the score of the metric is the arithmetic mean of the field scores, and the
\* field score map has exactly one entry per key of the union of the top-level
\* keys, each the similarity score of that key's two values alone.
C8_MeanOfFieldScores ==
    (MetricDone /\ BothMappings /\ UnionOfKeys # {}) =>
        /\ result.kind = "return"
        /\ result.val[2].field_scores = field_scores
        /\ DOMAIN field_scores = UnionOfKeys
        /\ \A k \in UnionOfKeys :
              /\ key_diffs[k] \in DeepDiff(Get(expected_data, k), Get(extracted_data, k))
              /\ field_scores[k] =
                    calculate_similarity_score(Get(expected_data, k), Get(extracted_data, k),
                                               key_diffs[k])
        /\ LET total == C8_Total(field_scores, UnionOfKeys)
               n == Cardinality(UnionOfKeys)
           IN  result.val[1].num * total.den * n = total.num * result.val[1].den

\* the key a on the expected side only, the key b equal on both: (0 + 1)/2
C8_Witness ==
    /\ MetricDone /\ BothMappings
    /\ DOMAIN expected_data.v = Keys /\ DOMAIN extracted_data.v = {"b"}
    /\ expected_data.v["a"] = Num(1)
    /\ field_scores = [k \in Keys |-> IF k = "a" THEN Zero ELSE One]
    /\ result.kind = "return" /\ result.val[1] = Frac(1, 2)

\* C9: for expected and extracted that are not None, calculate_similarity_score
\* returns 1.0 only when the diff is empty: a diff with an entry in any of the
\* six categories scores strictly below 1.0, also when the added or removed
\* element is an empty sequence or mapping.  Stated of the call on its own and of
\* the call made for each top-level key.
C9_OnlyEmptyDiffScoresOne ==
    /\ (SimilarityDone /\ expected_data # Null /\ extracted_data # Null /\ diff # EmptyDiff)
           => FLt(result.val, One)
    /\ \A k \in DOMAIN field_scores :
           (/\ Get(expected_data, k) # Null /\ Get(extracted_data, k) # Null
            /\ key_diffs[k] # EmptyDiff)
           => FLt(field_scores[k], One)

\* the key k is in exactly one of the two mappings, with a value that is not null
OneSided(k) ==
    \/ k \in DOMAIN expected_data.v \ DOMAIN extracted_data.v /\ expected_data.v[k] # Null
    \/ k \in DOMAIN extracted_data.v \ DOMAIN expected_data.v /\ extracted_data.v[k] # Null

\* C10: in calculate_field_level_scores every top-level key present in exactly
\* one of the two mappings with a non-null value gets field score 0.0, whatever
\* the size or content of the value.
C10_OneSidedKeyScoresZero ==
    \A k \in DOMAIN field_scores : OneSided(k) => field_scores[k] = Zero

\* a two-element sequence under a key the output lacks
C10_Witness ==
    /\ mode = "metric" /\ pc = "aggregate" /\ BothMappings
    /\ DOMAIN expected_data.v = Keys /\ DOMAIN extracted_data.v = {"b"}
    /\ expected_data.v["a"] = List(<<Num(1), Num(1)>>)
    /\ field_scores["a"] = Zero

====
